---- MODULE Spec2Model ----
(***************************************************************************)
(* Model of the err-fastlane plugin (src/fastlane.py): the activation      *)
(* path (setup_repos / setup_environments) and the two chat-command flows  *)
(* fastlane_env and fastlane, each a fixed chain of external commands run  *)
(* through run_subprocess.                                                 *)
(*                                                                         *)
(* Strings that the code manipulates (paths, project names, command        *)
(* output) are sequences of one-character strings, so that lower-casing,   *)
(* concatenation, os.path.join and os.path.abspath are computed the way    *)
(* the library computes them.                                              *)
(***************************************************************************)
EXTENDS Integers, Sequences, FiniteSets, TLC

\* ------------------------------------------------------------------------
\* Bounds of the model
\* ------------------------------------------------------------------------

\* How many times activate() is called in one behaviour.
MaxActivations == 2

\* The chat commands that may be in flight at the same time.
Flows == {"f1", "f2"}

\* ------------------------------------------------------------------------
\* Characters and strings
\* ------------------------------------------------------------------------

\* ord() of the characters that occur in the model (ASCII).
OrdTable ==
    [c \in {"\n", "-", ".", "/", "A", "B", "a", "b", "e", "f", "i", "l",
            "n", "o", "r", "s", "t", "w", "x", "y", "z"} |->
        CASE c = "\n" -> 10 [] c = "-" -> 45 [] c = "." -> 46 [] c = "/" -> 47
          [] c = "A" -> 65  [] c = "B" -> 66
          [] c = "a" -> 97  [] c = "b" -> 98  [] c = "e" -> 101 [] c = "f" -> 102
          [] c = "i" -> 105 [] c = "l" -> 108 [] c = "n" -> 110 [] c = "o" -> 111
          [] c = "r" -> 114 [] c = "s" -> 115 [] c = "t" -> 116 [] c = "w" -> 119
          [] c = "x" -> 120 [] c = "y" -> 121 [] c = "z" -> 122]

Ord(c) == OrdTable[c]

Chr(n) == CHOOSE c \in DOMAIN OrdTable : OrdTable[c] = n

\* str.lower on one character: 'A'..'Z' move to 'a'..'z', the rest stay.
LowerChar(c) == IF Ord(c) >= 65 /\ Ord(c) <= 90 THEN Chr(Ord(c) + 32) ELSE c

\* type=str.lower of the --project-name argument.
Lower(s) == [i \in 1..Len(s) |-> LowerChar(s[i])]

\* str.encode(s): the UTF-8 bytes of an ASCII string.
Encode(s) == [i \in 1..Len(s) |-> Ord(s[i])]

\* ------------------------------------------------------------------------
\* os.path
\* ------------------------------------------------------------------------

\* os.pardir
pardir == <<".", ".">>

IsAbs(p) == Len(p) > 0 /\ p[1] = "/"

\* os.path.join(a, b)
PathJoin(a, b) ==
    IF IsAbs(b) THEN b
    ELSE IF a = <<>> \/ a[Len(a)] = "/" THEN a \o b
    ELSE a \o <<"/">> \o b

\* path.split('/')
RECURSIVE SplitRec(_, _, _, _)
SplitRec(p, i, cur, acc) ==
    IF i > Len(p) THEN Append(acc, cur)
    ELSE IF p[i] = "/" THEN SplitRec(p, i + 1, <<>>, Append(acc, cur))
    ELSE SplitRec(p, i + 1, Append(cur, p[i]), acc)

Split(p) == SplitRec(p, 1, <<>>, <<>>)

\* '/'.join(comps)
RECURSIVE SlashJoin(_)
SlashJoin(comps) ==
    IF comps = <<>> THEN <<>>
    ELSE IF Len(comps) = 1 THEN comps[1]
    ELSE comps[1] \o <<"/">> \o SlashJoin(Tail(comps))

\* The loop of posixpath.normpath over the components.
RECURSIVE NormComps(_, _, _, _)
NormComps(comps, i, new, initial) ==
    IF i > Len(comps) THEN new
    ELSE LET comp == comps[i] IN
         IF comp = <<>> \/ comp = <<".">> THEN NormComps(comps, i + 1, new, initial)
         ELSE IF \/ comp # pardir
                 \/ (initial = 0 /\ new = <<>>)
                 \/ (new # <<>> /\ new[Len(new)] = pardir)
              THEN NormComps(comps, i + 1, Append(new, comp), initial)
         ELSE IF new # <<>>
              THEN NormComps(comps, i + 1, SubSeq(new, 1, Len(new) - 1), initial)
         ELSE NormComps(comps, i + 1, new, initial)

\* Number of leading slashes normpath keeps: 0, 1, or 2 for exactly two.
InitialSlashes(p) ==
    IF ~IsAbs(p) THEN 0
    ELSE IF Len(p) >= 2 /\ p[2] = "/" /\ ~(Len(p) >= 3 /\ p[3] = "/") THEN 2
    ELSE 1

\* os.path.normpath(p)
NormPath(p) ==
    IF p = <<>> THEN <<".">>
    ELSE LET initial == InitialSlashes(p)
             body == SlashJoin(NormComps(Split(p), 1, <<>>, initial))
             full == [i \in 1..initial |-> "/"] \o body
         IN IF full = <<>> THEN <<".">> ELSE full

\* The working directory of the bot process (os.getcwd()).
ProcessCwd == <<"/", "w", "/", "e">>

\* os.path.abspath(p)
AbsPath(p) == NormPath(IF IsAbs(p) THEN p ELSE PathJoin(ProcessCwd, p))

\* ------------------------------------------------------------------------
\* Configuration and the world outside the process
\* ------------------------------------------------------------------------

\* Values of config['REPOS_ROOT']: with and without a trailing separator.
Roots == { <<"/", "r">>, <<"/", "r", "/">> }

\* Keys of config['projects'], in iteration order.
ProjectNames == << <<"a">>, <<"b">> >>

\* Values of --project-name as typed: a configured name in either case, and
\* one name that is not configured. (Requests for configured projects all
\* name the same one: they work in one clone.)
TypedNames == { <<"a">>, <<"A">>, <<"z">> }

Branches == {"main", "dev"}

\* Values of --environment.
Environments == {"prod", "staging"}

\* Texts the release tool may print when it exits with status zero.
Texts == { <<"x">>, <<"y">> }

\* Texts a command may print when it exits with a non-zero status.
ErrTexts == { <<"x">> }

\* The command line of each step.
GitCloneCmd == "git clone <url> <project_name>"
GitFetchCmd == "git fetch -p"
GitCheckoutCmd == "git checkout -B <branch> origin/<branch> -f"
FindCmd == "find <project_root> -maxdepth 2 -name fastlane -type d -print -quit"
BundleCmd == "bundle install"
EnvCmd == "fastlane env"
DeployCmd == "fastlane deploy"

\* Texts a command may print when it exits with status zero. The release
\* tool prints any of Texts; the model gives the git and bundle commands,
\* whose output the handlers drop, one text that the release tool never prints.
OkTexts(cmd) == IF cmd \in {EnvCmd, DeployCmd} THEN Texts ELSE { <<"o">> }

\* The name of the release tool's directory (the -name argument of find).
fastlane_name == <<"f", "a", "s", "t", "l", "a", "n", "e">>

\* -maxdepth of the find command.
MaxDepth == 2

\* The directories (relative to the clone) of each remote branch.
RemoteTree(name, branch) ==
    CASE name = <<"a">> /\ branch = "main" ->
             { <<"i", "o", "s">>, <<"i", "o", "s", "/">> \o fastlane_name }
      [] name = <<"a">> /\ branch = "dev"  -> {}
      [] name = <<"b">> -> { fastlane_name }
      [] OTHER -> {}

Basename(p) == LET c == Split(p) IN c[Len(c)]

VARIABLES
    reposRoot,      \* config['REPOS_ROOT']
    configured,     \* bool(self.config)
    rootKind,       \* what is on disk at REPOS_ROOT: "absent", "dir" or "file"
    clones,         \* clone directory on disk -> branch checked out in it
    environ,        \* os.environ, the keys the plugin writes
    activated,      \* super().activate() has run
    activations,    \* number of calls of activate()
    cloneLog,       \* the git clone commands issued, with their result
    environments,   \* the local of setup_environments while it runs
    pc,             \* per flow: the step it is about to run
    args,           \* per flow: the parsed command arguments
    project_root,   \* per flow: local of the handler
    fastlane_parent_directory,  \* per flow: local of the handler
    child_env,      \* per flow: ENV in the environment the child process was started with
    child,          \* per flow: result of the child process that has run and not yet been collected
    completed,      \* per flow: result of the last run_subprocess call
    reactions,      \* per flow: reaction calls made on the message
    sent,           \* per flow: send_stream_request calls made
    ran,            \* per flow: external commands launched, in order
    release         \* per flow: ENV and checked-out branch seen by the release action

vars == <<reposRoot, configured, rootKind, clones, environ, activated,
          activations, cloneLog, environments, pc, args, project_root,
          fastlane_parent_directory, child_env, child, completed,
          reactions, sent, ran, release>>

configVars == <<reposRoot, configured>>
activationVars == <<rootKind, activated, activations, cloneLog, environments>>
flowVars == <<pc, args, project_root, fastlane_parent_directory, child_env,
              child, completed, reactions, sent, ran, release>>

\* The directory a clone of `name` is created in by git clone run in REPOS_ROOT.
ClonePath(root, name) == NormPath(PathJoin(root, name))

\* p (normalised) is a directory on disk, given whether REPOS_ROOT is a
\* directory and the clones with the branch each has checked out.
IsDir(p, rootEx, cl) ==
    \/ p \in DOMAIN cl
    \/ p \in { <<"/">>, <<"/", "w">>, ProcessCwd }
    \/ rootEx /\ p = NormPath(reposRoot)
    \/ \E c \in DOMAIN cl :
         \E rel \in RemoteTree(Basename(c), cl[c]) : p = c \o <<"/">> \o rel

\* subprocess.run could not start the command: an OSError such as
\* FileNotFoundError, raised by Popen in the calling thread.
StartFailed == [rc |-> "oserror", out |-> <<>>]

\* The ways a started command can end: exit status zero, or non-zero
\* (CalledProcessError, with the merged output).
ExitResults(cmd) ==
    [rc : {"ok"}, out : OkTexts(cmd)] \cup [rc : {"nonzero"}, out : ErrTexts]

\* The results subprocess.run(args, check=True, cwd=cwd) can have when the
\* command is started now: it cannot be started (always so when cwd is no
\* directory), or it starts and ends.
RunResults(cmd, cwd, rootEx, cl) ==
    { StartFailed }
    \cup (IF IsDir(NormPath(cwd), rootEx, cl) THEN ExitResults(cmd) ELSE {})

\* get_project_root
get_project_root(project_name) == reposRoot \o project_name

\* What `find project_root -maxdepth 2 -name fastlane -type d -print -quit`
\* prints: the first match and a newline, or nothing.
FindMatches(root) ==
    (IF Basename(root) = fastlane_name THEN { root } ELSE {})
    \cup { root \o <<"/">> \o rel :
             rel \in { r \in (IF NormPath(root) \in DOMAIN clones
                              THEN RemoteTree(Basename(root), clones[NormPath(root)])
                              ELSE {}) :
                         Basename(r) = fastlane_name /\ Len(Split(r)) <= MaxDepth } }

FindStdout(root) ==
    IF FindMatches(root) = {} THEN { <<>> }
    ELSE { m \o <<"\n">> : m \in FindMatches(root) }

\* The value find_fastlane_directory returns for a given stdout of find.
find_fastlane_directory(stdout) == AbsPath(PathJoin(stdout, pardir))

\* ------------------------------------------------------------------------
\* Activation
\* ------------------------------------------------------------------------

\* The S3 settings of the configuration.
ConfigS3 ==
    [S3_KEY |-> "key", S3_SECRET |-> "secret", S3_BUCKET |-> "bucket",
     S3_REGION |-> "region"]

\* No copy of os.environ is held: setup_environments is not running.
NoCopy ==
    [k \in {"ENV", "S3_KEY", "S3_SECRET", "S3_BUCKET", "S3_REGION"} |-> "none"]

\* setup_environments, lines 27-31: the copy of os.environ with the four S3
\* settings assigned.
setup_environments(env) ==
    [k \in DOMAIN env |-> IF k \in DOMAIN ConfigS3 THEN ConfigS3[k] ELSE env[k]]

\* os.environ.update(environments), line 32: every key the copy holds is
\* written back; a key the copy does not hold is left as it is.
environ_update(env, copy) ==
    [k \in DOMAIN env |-> IF copy[k] = "unset" THEN env[k] ELSE copy[k]]

\* Variant of NeedsClone that drops the os.path.exists test.
NeedsCloneAlways(name, rootEx, cl) == TRUE

\* The test of setup_repos: the project has no directory under REPOS_ROOT.
NeedsClone(name, rootEx, cl) ==
    ~IsDir(NormPath(PathJoin(reposRoot, name)), rootEx, cl)

\* The for loop of setup_repos from project i on; rootEx tells whether
\* REPOS_ROOT is a directory. Yields the ways the loop can end: the clones and the log at its end, and
\* whether a failed git clone raised out of it.
RECURSIVE CloneLoop(_, _, _, _)
CloneLoop(i, rootEx, cl, log) ==
    IF i > Len(ProjectNames)
    THEN { [clones |-> cl, log |-> log, raised |-> FALSE] }
    ELSE LET name == ProjectNames[i]
             path == ClonePath(reposRoot, name)
         IN IF ~NeedsClone(name, rootEx, cl)
            THEN CloneLoop(i + 1, rootEx, cl, log)
            ELSE UNION {
                   LET log2 == Append(log, [project |-> name, rc |-> r.rc])
                   IN IF r.rc = "ok"
                      THEN CloneLoop(i + 1, rootEx,
                                     [c \in DOMAIN cl \cup {path} |->
                                         IF c = path THEN "main" ELSE cl[c]],
                                     log2)
                      ELSE { [clones |-> cl, log |-> log2, raised |-> TRUE] }
                   : r \in RunResults(GitCloneCmd, reposRoot, rootEx, cl) }

\* activate() of a plugin without configuration: it logs, warns and returns.
\* (The plugin manager runs one activate() at a time.)
ActivateUnconfigured ==
    /\ activations < MaxActivations
    /\ environments = NoCopy
    /\ ~configured
    /\ activations' = activations + 1
    /\ activated' = FALSE
    /\ UNCHANGED <<rootKind, clones, environ, cloneLog, environments, configVars,
                   flowVars>>

\* activate() when os.makedirs(REPOS_ROOT) fails with an error other than EEXIST.
ActivateMakedirsFails ==
    /\ activations < MaxActivations
    /\ environments = NoCopy
    /\ configured
    /\ rootKind = "absent"
    /\ activations' = activations + 1
    /\ activated' = FALSE
    /\ UNCHANGED <<rootKind, clones, environ, cloneLog, environments, configVars,
                   flowVars>>

\* activate() of a configured plugin, up to line 31. os.makedirs creates
\* REPOS_ROOT, or raises EEXIST for what is there, a directory or not, which
\* setup_repos drops. Then the clone loop; a git clone that fails or cannot
\* start (always so when REPOS_ROOT is no directory) raises out of
\* activate(). Else setup_environments copies os.environ and assigns the S3
\* settings in the copy.
Activate ==
    /\ activations < MaxActivations
    /\ environments = NoCopy
    /\ configured
    /\ activations' = activations + 1
    /\ LET kind == IF rootKind = "absent" THEN "dir" ELSE rootKind IN
         /\ rootKind' = kind
         /\ \E end \in CloneLoop(1, kind = "dir", clones, cloneLog) :
              /\ clones' = end.clones
              /\ cloneLog' = end.log
              /\ IF end.raised
                 THEN activated' = FALSE /\ UNCHANGED environments
                 ELSE UNCHANGED activated /\ environments' = setup_environments(environ)
    /\ UNCHANGED <<environ, configVars, flowVars>>

\* The rest of activate(): os.environ.update(environments), line 32, and
\* the base class's activate, line 23. Handlers may have written os.environ
\* since the copy was taken.
UpdateEnviron ==
    /\ environments # NoCopy
    /\ environ' = environ_update(environ, environments)
    /\ environments' = NoCopy
    /\ activated' = TRUE
    /\ UNCHANGED <<rootKind, clones, activations, cloneLog, configVars, flowVars>>

\* ------------------------------------------------------------------------
\* The two flows
\* ------------------------------------------------------------------------
\* A handler runs in its own thread and is observed where it blocks: inside
\* subprocess.run (pc names the command) and inside a call to the chat
\* backend (pc names the call, which has been made).  The child process of a
\* command acts on the disk at some moment while the handler waits for it.

NoArgs == [kind |-> "none", project_name |-> <<>>, branch_name |-> "none",
           environment |-> "none"]

NoResult == [rc |-> "none", out |-> <<>>]

NoRelease == [env |-> "none", head |-> "none"]

\* The final command of a flow: check_fastlane_env or build_fastlane.
FinalCmd(kind) == IF kind = "env" THEN EnvCmd ELSE DeployCmd

\* name= of the attachment: 'response-env.txt' / 'response-%s.txt' % environment
ResponseName(a) ==
    IF a.kind = "env" THEN <<"response-", "env", ".txt">>
    ELSE <<"response-", a.environment, ".txt">>

\* name= of the attachment: 'error-env.txt' / 'error-%s.txt' % environment
ErrorName(a) ==
    IF a.kind = "env" THEN <<"error-", "env", ".txt">>
    ELSE <<"error-", a.environment, ".txt">>

\* The branch checked out in the clone at `root`, if there is one.
CheckedOut(root) ==
    IF NormPath(root) \in DOMAIN clones THEN clones[NormPath(root)] ELSE "none"

\* The handler waits in subprocess.run.
Running(f) == pc[f] \in {"fetch", "checkout", "find", "bundle", "final"}

\* The command the handler waits for.
CmdOf(f) ==
    CASE pc[f] = "fetch" -> GitFetchCmd
      [] pc[f] = "checkout" -> GitCheckoutCmd
      [] pc[f] = "find" -> FindCmd
      [] pc[f] = "bundle" -> BundleCmd
      [] pc[f] = "final" -> FinalCmd(args[f].kind)

\* Its cwd= argument.
CwdOf(f) ==
    IF pc[f] \in {"fetch", "checkout", "find"} THEN project_root[f]
    ELSE fastlane_parent_directory[f]

\* subprocess.run has started the child process of the current command.
Forked(f) == child_env[f] # "none"

\* Popen can start the current command now: its cwd is a directory.
CanStart(f) == IsDir(NormPath(CwdOf(f)), rootKind = "dir", clones)

\* The results the started child of the current command can have when it
\* acts now: find prints what the clone holds at this moment.
ChildResults(f) ==
    IF pc[f] = "find"
    THEN { o \in ExitResults(FindCmd) : o.rc # "ok" }
         \cup { [rc |-> "ok", out |-> s] : s \in FindStdout(project_root[f]) }
    ELSE ExitResults(CmdOf(f))

\* What the child does besides printing: git checkout switches the clone to
\* the branch; the release tool works on the tree that is checked out when
\* it acts, with the ENV of the environment it was started with.
ChildEffects(f, o, env) ==
    /\ clones' = IF pc[f] = "checkout" /\ o.rc = "ok"
                 THEN [clones EXCEPT ![NormPath(project_root[f])] = args[f].branch_name]
                 ELSE clones
    /\ release' = IF pc[f] = "final" /\ o.rc # "oserror"
                  THEN [release EXCEPT ![f] =
                           [env |-> env, head |-> CheckedOut(project_root[f])]]
                  ELSE release

\* The child touches state that other flows read or write: a git checkout
\* that switches the clone, a find that reads it, a release tool that runs.
\* Any other child (git fetch, bundle install, a command that fails) changes
\* nothing a flow can see before its handler resumes.
Touches(f, o) ==
    \/ pc[f] \in {"checkout", "find"} /\ o.rc = "ok"
    \/ pc[f] = "final"

\* Popen of the command the handler has entered subprocess.run for: the
\* child is forked with a copy of os.environ and changes into cwd. (When
\* Popen raises instead, the handler goes on in the same thread: that is
\* part of the handler's step.)
ChildStarts(f) ==
    /\ Running(f)
    /\ ~Forked(f)
    /\ CanStart(f)
    /\ child_env' = [child_env EXCEPT ![f] = environ.ENV]
    /\ UNCHANGED <<configVars, activationVars, clones, environ, pc, args,
                   project_root, fastlane_parent_directory, child, completed,
                   reactions, sent, ran, release>>

\* The started child process of the command a handler waits for acts; it
\* has not yet exited and the handler has not yet resumed.
ChildRuns(f) ==
    /\ Running(f)
    /\ Forked(f)
    /\ child[f] = NoResult
    /\ \E o \in ChildResults(f) :
         /\ Touches(f, o)
         /\ child' = [child EXCEPT ![f] = o]
         /\ ChildEffects(f, o, child_env[f])
    /\ UNCHANGED <<configVars, activationVars, environ, pc, args, project_root,
                   fastlane_parent_directory, child_env, completed, reactions,
                   sent, ran>>

\* Variant of AfterRun for run_subprocess without check=True: a non-zero
\* exit status does not raise and the handler goes on.
AfterRunNoCheck(f, cmd, cwd, o, next) ==
    /\ ran' = [ran EXCEPT ![f] = Append(@, [cmd |-> cmd, cwd |-> cwd, rc |-> o.rc, out |-> o.out])]
    /\ completed' = [completed EXCEPT ![f] = o]
    /\ CASE o.rc \in {"ok", "nonzero"} /\ next # "report" ->
              /\ pc' = [pc EXCEPT ![f] = next]
              /\ UNCHANGED reactions
         [] o.rc \in {"ok", "nonzero"} /\ next = "report" ->
              /\ pc' = [pc EXCEPT ![f] = "remove_reaction"]
              /\ reactions' = [reactions EXCEPT ![f] =
                                  Append(@, [op |-> "remove", name |-> "hourglass"])]
         [] OTHER ->
              /\ pc' = [pc EXCEPT ![f] = "raised"]
              /\ UNCHANGED reactions

\* What the handler does when run_subprocess ends with result o, up to its
\* next blocking call. On exit status zero it enters the next subprocess.run
\* (pc = next) or, after the final command, remove_reaction of the success
\* path (lines 86, 123). A CalledProcessError is caught and the handler
\* enters remove_reaction of the except clause (lines 94, 131). Any other
\* exception leaves the handler.
AfterRun(f, cmd, cwd, o, next) ==
    /\ ran' = [ran EXCEPT ![f] = Append(@, [cmd |-> cmd, cwd |-> cwd, rc |-> o.rc, out |-> o.out])]
    /\ completed' = [completed EXCEPT ![f] = o]
    /\ CASE o.rc = "ok" /\ next # "report" ->
              /\ pc' = [pc EXCEPT ![f] = next]
              /\ UNCHANGED reactions
         [] o.rc = "nonzero" \/ (o.rc = "ok" /\ next = "report") ->
              /\ pc' = [pc EXCEPT ![f] = "remove_reaction"]
              /\ reactions' = [reactions EXCEPT ![f] =
                                  Append(@, [op |-> "remove", name |-> "hourglass"])]
         [] OTHER ->
              /\ pc' = [pc EXCEPT ![f] = "raised"]
              /\ UNCHANGED reactions

\* The results subprocess.run of the current command can end with: that of
\* the child if it has acted; else any a started child can have if it acts
\* now; else, with no child started yet, any the command can have if it is
\* started now.
Pending(f) ==
    IF child[f] # NoResult THEN { child[f] }
    ELSE IF Forked(f) THEN ChildResults(f)
    ELSE { StartFailed } \cup (IF CanStart(f) THEN ChildResults(f) ELSE {})

\* subprocess.run of the current command ends with result o and the handler
\* runs on. What the child has not done yet (start, act) happens in this step.
Resume(f, o, next) ==
    /\ IF child[f] = NoResult
       THEN ChildEffects(f, o, IF Forked(f) THEN child_env[f] ELSE environ.ENV)
       ELSE UNCHANGED <<clones, release>>
    /\ child' = [child EXCEPT ![f] = NoResult]
    /\ child_env' = [child_env EXCEPT ![f] = "none"]
    /\ AfterRun(f, CmdOf(f), CwdOf(f), o, next)

\* fastlane_env is called: line 79, the hourglass.
StartEnv(f) ==
    /\ activated
    /\ pc[f] = "idle"
    /\ \E typed \in TypedNames, b \in Branches :
         args' = [args EXCEPT ![f] =
                     [kind |-> "env", project_name |-> Lower(typed),
                      branch_name |-> b, environment |-> "none"]]
    /\ reactions' = [reactions EXCEPT ![f] = Append(@, [op |-> "add", name |-> "hourglass"])]
    /\ pc' = [pc EXCEPT ![f] = "hourglass"]
    /\ UNCHANGED <<configVars, activationVars, clones, environ, project_root,
                   fastlane_parent_directory, child_env, child, completed, sent,
                   ran, release>>

\* fastlane is called: line 115, os.environ['ENV']; line 116, the hourglass.
StartDeploy(f) ==
    /\ activated
    /\ pc[f] = "idle"
    /\ \E typed \in TypedNames, b \in Branches, e \in Environments :
         /\ args' = [args EXCEPT ![f] =
                        [kind |-> "deploy", project_name |-> Lower(typed),
                         branch_name |-> b, environment |-> e]]
         /\ environ' = [environ EXCEPT !.ENV = e]
    /\ reactions' = [reactions EXCEPT ![f] = Append(@, [op |-> "add", name |-> "hourglass"])]
    /\ pc' = [pc EXCEPT ![f] = "hourglass"]
    /\ UNCHANGED <<configVars, activationVars, clones, project_root,
                   fastlane_parent_directory, child_env, child, completed, sent,
                   ran, release>>

\* add_reaction of the hourglass has returned: get_project_root (lines 81,
\* 118), and the handler enters subprocess.run of git fetch.
EnterTry(f) ==
    /\ pc[f] = "hourglass"
    /\ project_root' = [project_root EXCEPT ![f] = get_project_root(args[f].project_name)]
    /\ pc' = [pc EXCEPT ![f] = "fetch"]
    /\ UNCHANGED <<configVars, activationVars, clones, environ, args,
                   fastlane_parent_directory, child_env, child, completed,
                   reactions, sent, ran, release>>

\* fetch_branch_from_origin, first command: git fetch -p
GitFetch(f) ==
    /\ pc[f] = "fetch"
    /\ \E o \in Pending(f) : Resume(f, o, "checkout")
    /\ UNCHANGED <<configVars, activationVars, environ, args, project_root,
                   fastlane_parent_directory, sent>>

\* Variant of GitCheckout that waits while another flow works in the same clone.
GitCheckoutExclusive(f) ==
    /\ pc[f] = "checkout"
    /\ \A g \in Flows \ {f} :
         project_root[g] = project_root[f] => pc[g] \notin {"find", "bundle", "final"}
    /\ \E o \in Pending(f) : Resume(f, o, "find")
    /\ UNCHANGED <<configVars, activationVars, environ, args, project_root,
                   fastlane_parent_directory, sent>>

\* fetch_branch_from_origin, second command: git checkout -B b origin/b -f
GitCheckout(f) ==
    /\ pc[f] = "checkout"
    /\ \E o \in Pending(f) : Resume(f, o, "find")
    /\ UNCHANGED <<configVars, activationVars, environ, args, project_root,
                   fastlane_parent_directory, sent>>

\* find_fastlane_directory
FindFastlane(f) ==
    /\ pc[f] = "find"
    /\ \E o \in Pending(f) :
         /\ Resume(f, o, "bundle")
         /\ fastlane_parent_directory' =
                IF o.rc = "ok"
                THEN [fastlane_parent_directory EXCEPT ![f] =
                         find_fastlane_directory(o.out)]
                ELSE fastlane_parent_directory
    /\ UNCHANGED <<configVars, activationVars, environ, args, project_root, sent>>

\* install_bundle
InstallBundle(f) ==
    /\ pc[f] = "bundle"
    /\ \E o \in Pending(f) : Resume(f, o, "final")
    /\ UNCHANGED <<configVars, activationVars, environ, args, project_root,
                   fastlane_parent_directory, sent>>

\* check_fastlane_env / build_fastlane
FinalAction(f) ==
    /\ pc[f] = "final"
    /\ \E o \in Pending(f) : Resume(f, o, "report")
    /\ UNCHANGED <<configVars, activationVars, environ, args, project_root,
                   fastlane_parent_directory, sent>>

\* The reaction that replaces the hourglass: line 87/124 after a success,
\* line 95/132 in the except clause.
TerminalReaction(o) == IF o.rc = "ok" THEN "white_check_mark" ELSE "x"

\* remove_reaction has returned; the handler calls add_reaction.
AddReaction(f) ==
    /\ pc[f] = "remove_reaction"
    /\ reactions' = [reactions EXCEPT ![f] =
                        Append(@, [op |-> "add", name |-> TerminalReaction(completed[f])])]
    /\ pc' = [pc EXCEPT ![f] = "add_reaction"]
    /\ UNCHANGED <<configVars, activationVars, clones, environ, args, project_root,
                   fastlane_parent_directory, child_env, child, completed, sent, ran,
                   release>>

\* Variant of ResponseAttachment that holds the output of the command before
\* the final one.
ResponseAttachmentStale(f) ==
    [name |-> ResponseName(args[f]), body |-> Encode(ran[f][Len(ran[f]) - 1].out)]

\* The attachment of the success path (lines 88-92, 125-129).
ResponseAttachment(f) ==
    [name |-> ResponseName(args[f]), body |-> Encode(completed[f].out)]

\* Variant of ErrorAttachment with the name of the success path.
ErrorAttachmentMisnamed(f) ==
    [name |-> ResponseName(args[f]), body |-> Encode(completed[f].out)]

\* The attachment of the except clause (lines 97-101, 134-138).
ErrorAttachment(f) ==
    [name |-> ErrorName(args[f]), body |-> Encode(completed[f].out)]

\* add_reaction has returned; the handler (after log.exception in the except
\* clause) calls send_stream_request.
SendStreamRequest(f) ==
    /\ pc[f] = "add_reaction"
    /\ sent' = [sent EXCEPT ![f] =
                   Append(@, IF completed[f].rc = "ok" THEN ResponseAttachment(f)
                             ELSE ErrorAttachment(f))]
    /\ pc' = [pc EXCEPT ![f] = "send_stream_request"]
    /\ UNCHANGED <<configVars, activationVars, clones, environ, args, project_root,
                   fastlane_parent_directory, child_env, child, completed, reactions,
                   ran, release>>

\* send_stream_request has returned; the handler returns.
Return(f) ==
    /\ pc[f] = "send_stream_request"
    /\ pc' = [pc EXCEPT ![f] = "done"]
    /\ UNCHANGED <<configVars, activationVars, clones, environ, args, project_root,
                   fastlane_parent_directory, child_env, child, completed, reactions,
                   sent, ran, release>>

\* ------------------------------------------------------------------------
\* Specifications
\* ------------------------------------------------------------------------

NoEnviron ==
    [k \in {"ENV", "S3_KEY", "S3_SECRET", "S3_BUCKET", "S3_REGION"} |-> "unset"]

FlowsIdle ==
    /\ pc = [f \in Flows |-> "idle"]
    /\ args = [f \in Flows |-> NoArgs]
    /\ project_root = [f \in Flows |-> <<>>]
    /\ fastlane_parent_directory = [f \in Flows |-> <<>>]
    /\ child_env = [f \in Flows |-> "none"]
    /\ child = [f \in Flows |-> NoResult]
    /\ completed = [f \in Flows |-> NoResult]
    /\ reactions = [f \in Flows |-> <<>>]
    /\ sent = [f \in Flows |-> <<>>]
    /\ ran = [f \in Flows |-> <<>>]
    /\ release = [f \in Flows |-> NoRelease]

\* The plugin after a successful activation: REPOS_ROOT and a clone of every
\* configured project exist, the S3 settings are in os.environ, ENV is not.
\* The plugin may be activated again while flows run.
Init ==
    /\ reposRoot \in Roots
    /\ configured = TRUE
    /\ rootKind = "dir"
    /\ clones = [c \in { ClonePath(reposRoot, ProjectNames[i]) :
                            i \in 1..Len(ProjectNames) } |-> "main"]
    /\ environ = setup_environments(NoEnviron)
    /\ activated = TRUE
    /\ activations = 1
    /\ cloneLog = <<>>
    /\ environments = NoCopy
    /\ FlowsIdle

Next ==
    \/ Activate
    \/ UpdateEnviron
    \/ \E f \in Flows :
        \/ StartEnv(f)
        \/ StartDeploy(f)
        \/ EnterTry(f)
        \/ ChildStarts(f)
        \/ ChildRuns(f)
        \/ GitFetch(f)
        \/ GitCheckout(f)
        \/ FindFastlane(f)
        \/ InstallBundle(f)
        \/ FinalAction(f)
        \/ AddReaction(f)
        \/ SendStreamRequest(f)
        \/ Return(f)

Spec == Init /\ [][Next]_vars

\* The plugin before its first activation in a process: the disk may hold
\* REPOS_ROOT and clones left by earlier runs, or a file at REPOS_ROOT.
InitActivate ==
    /\ reposRoot \in Roots
    /\ configured \in BOOLEAN
    /\ rootKind \in {"absent", "dir", "file"}
    /\ \E present \in SUBSET { ClonePath(reposRoot, ProjectNames[i]) :
                                 i \in 1..Len(ProjectNames) } :
         /\ present # {} => rootKind = "dir"
         /\ clones = [c \in present |-> "main"]
    /\ environ = NoEnviron
    /\ activated = FALSE
    /\ activations = 0
    /\ cloneLog = <<>>
    /\ environments = NoCopy
    /\ FlowsIdle

NextActivate ==
    \/ ActivateUnconfigured
    \/ ActivateMakedirsFails
    \/ Activate
    \/ UpdateEnviron

SpecActivate == InitActivate /\ [][NextActivate]_vars

\* ------------------------------------------------------------------------
\* Properties
\* ------------------------------------------------------------------------

Adds(f, name) ==
    Cardinality({ i \in DOMAIN reactions[f] :
                    reactions[f][i] = [op |-> "add", name |-> name] })

Removes(f, name) ==
    Cardinality({ i \in DOMAIN reactions[f] :
                    reactions[f][i] = [op |-> "remove", name |-> name] })

\* The reaction is on the message.
Shows(f, name) == Adds(f, name) > Removes(f, name)

\* The commands of a flow, in the order of the handler.
StepOrder(kind) ==
    << GitFetchCmd, GitCheckoutCmd, FindCmd, BundleCmd, FinalCmd(kind) >>

\* A command of the flow ran and exited non-zero.
StepFailed(f) == \E i \in DOMAIN ran[f] : ran[f][i].rc = "nonzero"

\* Every command of the flow ran and exited zero.
AllSucceeded(f) ==
    /\ Len(ran[f]) = Len(StepOrder(args[f].kind))
    /\ \A i \in DOMAIN ran[f] : ran[f][i].rc = "ok"

Ended(f) == pc[f] \in {"done", "raised"}

\* The handler is in its report, or has returned from it.
Reporting(f) ==
    pc[f] \in {"remove_reaction", "add_reaction", "send_stream_request", "done"}

\* C1: a flow in which a command exited non-zero never adds the
\* white_check_mark and never sends anything but one attachment named
\* error-env.txt or error-<environment>.txt that holds the bytes of the failed
\* command's output; when its handler has returned it has added the x
\* reaction exactly once and sent that attachment.
C1_FailureReport ==
    \A f \in Flows :
        StepFailed(f) =>
            LET failed == ran[f][Len(ran[f])]
                attachment == [name |-> ErrorName(args[f]), body |-> Encode(failed.out)]
            IN /\ failed.rc = "nonzero"
               /\ Adds(f, "white_check_mark") = 0
               /\ Adds(f, "x") <= 1
               /\ sent[f] \in { <<>>, <<attachment>> }
               /\ pc[f] = "done" => Adds(f, "x") = 1 /\ sent[f] = <<attachment>>

\* An inspect flow failed in its release action and a deploy flow failed in
\* bundle install; both handlers have returned.
C1_Witness ==
    \E f, g \in Flows :
        /\ args[f].kind = "env" /\ args[g].kind = "deploy"
        /\ StepFailed(f) /\ ran[f][Len(ran[f])].cmd = EnvCmd
        /\ StepFailed(g) /\ ran[g][Len(ran[g])].cmd = BundleCmd
        /\ pc[f] = "done" /\ pc[g] = "done"

\* C2: a flow all of whose commands exited zero never adds the x and never
\* sends anything but one attachment named response-env.txt or
\* response-<environment>.txt that holds the bytes of the output of the
\* release action, the fifth command; when its handler has returned it has
\* added the white_check_mark exactly once and sent that attachment.
C2_SuccessReport ==
    \A f \in Flows :
        AllSucceeded(f) =>
            LET final == ran[f][Len(ran[f])]
                attachment == [name |-> ResponseName(args[f]), body |-> Encode(final.out)]
            IN /\ final.cmd = FinalCmd(args[f].kind)
               /\ Adds(f, "x") = 0
               /\ Adds(f, "white_check_mark") <= 1
               /\ sent[f] \in { <<>>, <<attachment>> }
               /\ pc[f] = "done" =>
                      Adds(f, "white_check_mark") = 1 /\ sent[f] = <<attachment>>

\* An inspect flow and a deploy flow both ran to the end without a failure.
C2_Witness ==
    \E f, g \in Flows :
        /\ args[f].kind = "env" /\ args[g].kind = "deploy"
        /\ AllSucceeded(f) /\ AllSucceeded(g)
        /\ pc[f] = "done" /\ pc[g] = "done"

\* C3: a flow that has ended has returned from its handler (nothing was
\* raised out of it), its hourglass is off the message and exactly one of
\* white_check_mark and x has been added, once.
C3_AlwaysReports ==
    \A f \in Flows :
        Ended(f) =>
            /\ pc[f] = "done"
            /\ ~Shows(f, "hourglass")
            /\ Adds(f, "white_check_mark") + Adds(f, "x") = 1

\* C4: the commands a flow has run are a prefix of fetch, checkout, find,
\* bundle install, release action; every command but the last one run exited
\* zero; and a flow whose last command exited non-zero is in its failure
\* report or has returned from it, with no child process.
C4_OrderAndShortCircuit ==
    \A f \in Flows :
        /\ Len(ran[f]) <= Len(StepOrder(args[f].kind))
        /\ \A i \in DOMAIN ran[f] :
             /\ ran[f][i].cmd = StepOrder(args[f].kind)[i]
             /\ i < Len(ran[f]) => ran[f][i].rc = "ok"
        /\ StepFailed(f) =>
             /\ Reporting(f)
             /\ ~Forked(f)
             /\ child[f] = NoResult
             /\ Adds(f, "white_check_mark") = 0

\* A flow has reported and returned after its checkout exited non-zero, two
\* commands run.
C4_Witness ==
    \E f \in Flows :
        /\ pc[f] = "done"
        /\ Len(ran[f]) = 2
        /\ ran[f][2].cmd = GitCheckoutCmd
        /\ ran[f][2].rc = "nonzero"
        /\ Adds(f, "x") = 1

\* C5: for a configured project name, typed in any case, the project root a
\* flow works in, once get_project_root has returned it, is
\* os.path.join(REPOS_ROOT, name), the directory of the clone.
C5_ProjectRootIsJoined ==
    \A f \in Flows :
        (pc[f] \notin {"idle", "hourglass"}
           /\ \E i \in DOMAIN ProjectNames : args[f].project_name = ProjectNames[i]) =>
            /\ project_root[f] = PathJoin(reposRoot, args[f].project_name)
            /\ NormPath(project_root[f]) \in DOMAIN clones

\* C6: once the only deploy flow there has been has ended, in success or
\* in failure, os.environ holds no ENV, as before that flow.
C6_NoResidualEnv ==
    \A f \in Flows :
        ( /\ args[f].kind = "deploy"
          /\ Ended(f)
          /\ \A g \in Flows \ {f} : args[g].kind # "deploy" )
        => environ.ENV = "unset"

\* Another flow has checked out its branch in the project root of flow f and
\* has commands left to run there.
Contended(f) ==
    \E g \in Flows \ {f} :
        /\ pc[g] \in {"find", "bundle", "final"}
        /\ project_root[g] = project_root[f]

\* C7: no flow waits for another flow of the same project: a flow that
\* waits for its forced git checkout can resume from it while another flow
\* is between its own checkout and its report in the same clone.
C7_NoMutualExclusion ==
    \A f \in Flows :
        (pc[f] = "checkout" /\ Contended(f)) => ENABLED GitCheckout(f)

\* Two flows for one project and different branches; the release action of
\* one ran and exited zero while the clone was on the other's branch.
C7_Witness ==
    \E f, g \in Flows :
        /\ f # g
        /\ args[f].project_name = args[g].project_name
        /\ args[f].branch_name # args[g].branch_name
        /\ AllSucceeded(f)
        /\ release[f].head = args[g].branch_name

\* C8: bundle install and the release action never run in a directory that
\* was derived from an empty result of the find command.
C8_NoEmptySearchResultUsed ==
    \A f \in Flows :
        \A i \in DOMAIN ran[f] :
            (ran[f][i].cmd \in {BundleCmd, EnvCmd, DeployCmd} /\ ran[f][i].rc # "oserror")
                => ran[f][3].out # <<>>

\* C9: an activation issues git clone only for projects that have no
\* directory under REPOS_ROOT before it, each at most once, and issues none
\* when every project has one.
C9_CloneOnlyWhenAbsent ==
    [][ LET issued == SubSeq(cloneLog', Len(cloneLog) + 1, Len(cloneLog')) IN
          /\ SubSeq(cloneLog', 1, Len(cloneLog)) = cloneLog
          /\ \A i \in DOMAIN issued :
               /\ ClonePath(reposRoot, issued[i].project) \notin DOMAIN clones
               /\ \A j \in DOMAIN issued : issued[j].project = issued[i].project => j = i
          /\ (\A i \in DOMAIN ProjectNames :
                 ClonePath(reposRoot, ProjectNames[i]) \in DOMAIN clones)
               => issued = <<>> ]_vars

\* Two activations: the first cloned both projects, the second issued nothing.
C9_Witness ==
    /\ activations = 2
    /\ activated
    /\ Len(cloneLog) = Len(ProjectNames)
    /\ \A i \in DOMAIN cloneLog : cloneLog[i].rc = "ok"

\* C10: the ENV a deploy flow's `fastlane deploy` is started with is the
\* --environment argument of that flow.
C10_DeployUsesOwnEnv ==
    \A f \in Flows :
        (args[f].kind = "deploy" /\ release[f] # NoRelease) =>
            release[f].env = args[f].environment

====
